---- MODULE Spec2Model ----
(***************************************************************************)
(* Collaborative piano client: the canvas component (components/canvas.tsx)*)
(* with its reconnecting WebSocket relay, and the Game render/input        *)
(* surface (lib/game).  One state machine: every event handler of the      *)
(* single-threaded UI loop is one action.                                  *)
(***************************************************************************)
EXTENDS Integers, Sequences, FiniteSets, TLC

(***************************************************************************)
(* Bounds of the model.                                                    *)
(***************************************************************************)
\* sockets created in one run (new WebSocket calls)
MaxConnects == 3
\* key positions the pointer and the server use: 0..MaxPos
MaxPos == 1
\* key positions the pointer touches: 0..MaxTouch
MaxTouch == 0
\* runs of the mount effect on one component instance
MaxMounts == 2
\* length of the playing array
MaxPlaying == 2
\* largest Watchers payload the server sends
MaxWatchers == 2

(***************************************************************************)
(* Program constants.                                                      *)
(***************************************************************************)
\* useRef(100) and the value onopen stores
BackoffFloor == 100
\* enum GameEventType { Play, Stop, Watchers }
Play == 0
Stop == 1
Watchers == 2
\* useState(1)
InitialWatchers == 1
\* private keyCount: number = 52
KeyCount == 52
\* the resting tints render writes: 0xffffff and 0x000000
White == 16777215
Black == 0

PIANO_KEYS == <<"c", "c#", "d", "d#", "e", "f", "f#", "g", "g#", "a", "a#", "b">>

\* a layout that puts every key in the first octave
SpriteMetaOneOctave(i) ==
    [key |-> PIANO_KEYS[(i % Len(PIANO_KEYS)) + 1], octave |-> 1]

(***************************************************************************)
(* Game.createPianoKeys: the sprite at position i carries pitch class      *)
(* PIANO_KEYS[i % 12] and octave floor(i / 12) + 1.                        *)
(***************************************************************************)
SpriteMeta(i) ==
    [key |-> PIANO_KEYS[(i % Len(PIANO_KEYS)) + 1],
     octave |-> (i \div Len(PIANO_KEYS)) + 1]

\* the sprites the model's frames name
Sprites == {SpriteMeta(i) : i \in 0..MaxPos}

\* the template string `${key}${octave}` of isPlaying/startPlaying/stopPlaying
KeyId(key, octave) == key \o ToString(octave)

\* the sprites the model's pointer touches
Touched == {SpriteMeta(i) : i \in 0..MaxTouch}

KeyIds == {KeyId(s.key, s.octave) : s \in Sprites}

\* [0xe0fefe, 0xc7ceea, 0xffdac1, 0xff9aa2, 0xffffd8, 0xb5ead7]
PIANO_KEY_COLORS == <<14745342, 13094634, 16767681, 16751266, 16777176, 11922135>>

\* drawPianoKey: the meta of the sprite added to the stage at `position`
DrawPianoKey(key, octave, position) ==
    [key |-> key, octave |-> octave,
     playingColor |-> PIANO_KEY_COLORS[(position % Len(PIANO_KEY_COLORS)) + 1]]

\* createPianoKeys: the metas of stage.children after the loop over
\* 0..keyCount-1, in the order of addChild; a meta is never written again
CreatePianoKeys ==
    [n \in 1..KeyCount |->
        DrawPianoKey(SpriteMeta(n - 1).key, SpriteMeta(n - 1).octave, n - 1)]

\* the pieces a pitch class is made of
Fragments == {"", "a", "b", "c", "d", "e", "f", "g"}

\* the strings of PIANO_KEYS that contain the text `mark`
Containing(mark) ==
    {PIANO_KEYS[n] : n \in {m \in 1..Len(PIANO_KEYS) :
        \E a, z \in Fragments : PIANO_KEYS[m] = a \o mark \o z}}

WithSharp == Containing("#")

\* a test for a flat marker instead of the sharp marker
IsBlackKeyFlat(key) == key \in Containing("b")

\* isBlackKey: /\#/.test(key), the key contains a sharp marker
IsBlackKey(key) == key \in WithSharp

(***************************************************************************)
(* Inbound frames.  A frame is its text; `json` tells whether JSON.parse   *)
(* accepts the text, and the remaining fields are what the text encodes.   *)
(***************************************************************************)
NoKey == [key |-> "", octave |-> 0]

PlayFrames == {[json |-> TRUE, type |-> Play, message |-> s, count |-> 0] : s \in Sprites}
StopFrames == {[json |-> TRUE, type |-> Stop, message |-> s, count |-> 0] : s \in Sprites}
WatchersFrames ==
    {[json |-> TRUE, type |-> Watchers, message |-> NoKey, count |-> n] : n \in 1..MaxWatchers}
\* text that is not JSON
Garbage == [json |-> FALSE, type |-> Play, message |-> NoKey, count |-> 0]

Frames == PlayFrames \cup StopFrames \cup WatchersFrames \cup {Garbage}

\* a parser that coerces text it cannot read into a frame instead of throwing
JSONParseLenient(data) ==
    [ok |-> TRUE, type |-> IF data.json THEN data.type ELSE Watchers,
     message |-> data.message, count |-> data.count]

\* JSON.parse(event.data): throws on text that is not JSON
JSONParse(data) ==
    IF data.json
    THEN [ok |-> TRUE, type |-> data.type, message |-> data.message, count |-> data.count]
    ELSE [ok |-> FALSE, type |-> Play, message |-> NoKey, count |-> 0]

VARIABLES
    mounted,      \* "no" | "yes" | "unmounted": lifecycle of the component's effect
    awaiting,     \* initApp invocations suspended at `await import('../lib/game')`
    appRef,       \* "none" | "live" | "destroyed": the Game held by appRef.current
    callbacks,    \* TRUE once _onKeyPlay/_onKeyStop are registered
    children,     \* app.stage.children.length; child n has meta CreatePianoKeys[n]
    initLog,      \* history: initApp invocations, Games constructed, initWs calls of initApp
    pointerDown,  \* Game.pointerDown
    button,       \* environment: TRUE while the pointer's button is physically held
    playing,      \* Game.playing, an array of key identity strings
    sounding,     \* the note the monophonic synth holds, "" when released
    watchers,     \* the watchers state cell
    socks,        \* readyState of every WebSocket created, in creation order
    wsRef,        \* index into socks of wsRef.current, 0 when undefined
    timers,       \* delays of the pending setTimeout reconnect callbacks
    reconnectBackoff,
    attempt,      \* history: reconnects scheduled since the last successful open
    pressed,      \* history: keys whose play callback fired since their last release event
    lastEvent     \* history: the handler that ran last and what it did

vars == <<mounted, awaiting, appRef, callbacks, children, initLog, pointerDown, button, playing, sounding,
          watchers, socks, wsRef, timers, reconnectBackoff, attempt, pressed,
          lastEvent>>

gameVars == <<pointerDown, button, playing, sounding>>
relayVars == <<socks, wsRef, timers, reconnectBackoff, attempt>>
mountVars == <<mounted, awaiting, appRef, callbacks, children, initLog>>

\* what lastEvent records: handler, key identity, callback fired, outcome of
\* send, the frame handled, whether a play callback fired for a key that was
\* pressed already, and the tints a render tick wrote
Event(kind, key, cb, sent, data) ==
    [kind |-> kind, key |-> key, cb |-> cb, sent |-> sent, data |-> data,
     again |-> cb = "play" /\ key \in pressed, tints |-> <<>>]

NoFrame == [json |-> FALSE, type |-> Stop, message |-> NoKey, count |-> 0]

Init ==
    /\ mounted = "no"
    /\ awaiting = 0
    /\ appRef = "none"
    /\ callbacks = FALSE
    /\ children = 0
    /\ initLog = [invoked |-> 0, built |-> 0, connected |-> 0]
    /\ pointerDown = FALSE
    /\ button = FALSE
    /\ playing = <<>>
    /\ sounding = ""
    /\ watchers = InitialWatchers
    /\ socks = <<>>
    /\ wsRef = 0
    /\ timers = <<>>
    /\ reconnectBackoff = BackoffFloor
    /\ attempt = 0
    /\ pressed = {}
    /\ lastEvent = Event("init", "", "none", "none", NoFrame)


(***************************************************************************)
(* The relay: initWs and the handlers it installs on each socket.          *)
(***************************************************************************)
Live == {"connecting", "open", "closing"}

\* initWs: wsRef.current = new WebSocket(wsUrl)
InitWs ==
    /\ Len(socks) < MaxConnects
    /\ socks' = Append(socks, "connecting")
    /\ wsRef' = Len(socks) + 1

\* an onopen that leaves the backoff delay where the last reconnect put it
OnOpenKeepsBackoff(i) ==
    /\ socks[i] = "connecting"
    /\ socks' = [socks EXCEPT ![i] = "open"]
    /\ attempt' = 0
    /\ lastEvent' = Event("open", "", "none", "none", NoFrame)
    /\ UNCHANGED <<wsRef, timers, reconnectBackoff, pressed, watchers>>
    /\ UNCHANGED <<gameVars, mountVars>>

\* onopen: reconnectBackoff.current = 100
OnOpen(i) ==
    /\ socks[i] = "connecting"
    /\ socks' = [socks EXCEPT ![i] = "open"]
    /\ reconnectBackoff' = BackoffFloor
    /\ attempt' = 0
    /\ lastEvent' = Event("open", "", "none", "none", NoFrame)
    /\ UNCHANGED <<wsRef, timers, pressed, watchers>>
    /\ UNCHANGED <<gameVars, mountVars>>

\* an onclose that also drops the keys marked playing
OnCloseClearsPlaying(i) ==
    /\ socks[i] \in Live
    /\ socks' = [socks EXCEPT ![i] = "closed"]
    /\ timers' = Append(timers, reconnectBackoff)
    /\ attempt' = attempt + 1
    /\ playing' = <<>>
    /\ lastEvent' = Event("close", "", "none", "none", NoFrame)
    /\ UNCHANGED <<wsRef, reconnectBackoff, pressed, watchers>>
    /\ UNCHANGED <<pointerDown, button, sounding, mountVars>>

\* onclose: setTimeout(<reconnect>, reconnectBackoff.current); fires once per
\* socket, for a failed connect, a dropped connection or a completed close()
OnClose(i) ==
    /\ socks[i] \in Live
    /\ socks' = [socks EXCEPT ![i] = "closed"]
    /\ timers' = Append(timers, reconnectBackoff)
    /\ attempt' = attempt + 1
    /\ lastEvent' = Event("close", "", "none", "none", NoFrame)
    /\ UNCHANGED <<wsRef, reconnectBackoff, pressed, watchers>>
    /\ UNCHANGED <<gameVars, mountVars>>

\* a repeating timer (setInterval) stays pending after it fires
KeepTimer(ts, j) == ts

\* a setTimeout callback runs once: the timer leaves the pending list
ClearTimer(ts, j) == SubSeq(ts, 1, j - 1) \o SubSeq(ts, j + 1, Len(ts))

\* the setTimeout callback: initWs(); reconnectBackoff.current *= 2
TimerFire(j) ==
    /\ timers' = ClearTimer(timers, j)
    /\ InitWs
    /\ reconnectBackoff' = reconnectBackoff * 2
    /\ lastEvent' = Event("timer", "", "none", "none", NoFrame)
    /\ UNCHANGED <<attempt, pressed, watchers>>
    /\ UNCHANGED <<gameVars, mountVars>>

(***************************************************************************)
(* Game: the playing array and the synth.                                  *)
(***************************************************************************)
\* this.playing.indexOf(`${key}${octave}`) >= 0
IsPlaying(key, octave) ==
    \E n \in 1..Len(playing) : playing[n] = KeyId(key, octave)

\* removal of the first occurrence only (splice at indexOf)
RemoveFirst(arr, id) ==
    IF \E n \in 1..Len(arr) : arr[n] = id
    THEN LET n == CHOOSE m \in 1..Len(arr) :
                    arr[m] = id /\ \A l \in 1..(m - 1) : arr[l] # id
         IN SubSeq(arr, 1, n - 1) \o SubSeq(arr, n + 1, Len(arr))
    ELSE arr

\* this.playing.filter(k => k !== id)
Filter(arr, id) == SelectSeq(arr, LAMBDA k : k # id)

\* startPlaying: push the identity, synth.triggerAttack(identity)
StartPlaying(key, octave) ==
    /\ Len(playing) < MaxPlaying
    /\ playing' = Append(playing, KeyId(key, octave))
    /\ sounding' = KeyId(key, octave)

\* stopPlaying: filter the identity out, synth.triggerRelease()
StopPlaying(key, octave) ==
    /\ playing' = Filter(playing, KeyId(key, octave))
    /\ sounding' = ""

\* render: one ticker callback; every sprite's tint is written
Render ==
    /\ appRef = "live"
    /\ lastEvent' =
         [Event("render", "", "none", "none", NoFrame) EXCEPT
            !.tints = [n \in 1..children |->
                         LET sprite == CreatePianoKeys[n] IN
                         IF IsPlaying(sprite.key, sprite.octave)
                         THEN sprite.playingColor
                         ELSE IF ~IsBlackKey(sprite.key) THEN White ELSE Black]]
    /\ UNCHANGED <<pointerDown, button, playing, sounding, pressed, watchers>>
    /\ UNCHANGED <<socks, wsRef, timers, reconnectBackoff, attempt>>
    /\ UNCHANGED <<mounted, awaiting, appRef, callbacks, children, initLog>>

(***************************************************************************)
(* The play/stop callbacks registered by initApp call sendEvent, which is  *)
(* wsRef.current?.send(JSON.stringify({type, message})).  send() on a      *)
(* socket still connecting throws InvalidStateError; on a closing or       *)
(* closed socket the frame is discarded; nothing is queued for later.      *)
(***************************************************************************)
\* a sendEvent that holds the frame back until the socket is open
SendEventQueued ==
    IF wsRef = 0 THEN "none"
    ELSE IF socks[wsRef] = "open" THEN "sent" ELSE "queued"

SendEvent ==
    IF wsRef = 0 THEN "none"
    ELSE CASE socks[wsRef] = "open" -> "sent"
           [] socks[wsRef] = "connecting" -> "throws"
           [] OTHER -> "discarded"

\* JSON.stringify({type, message}), the argument of send(); it is not
\* evaluated when wsRef.current is undefined
Stringify(type, message) ==
    IF wsRef = 0 THEN NoFrame
    ELSE [json |-> TRUE, type |-> type, message |-> message, count |-> 0]

\* a startPlaying / stopPlaying that reports the change to the local callbacks
RemoteCallbackRefires(type) ==
    CASE type = Play -> "play" [] type = Stop -> "stop" [] OTHER -> "none"

\* the callback startPlaying, stopPlaying and setWatchers invoke: neither
\* _onKeyPlay nor _onKeyStop is called from them
RemoteCallback(type) == "none"

\* a setter that only ever raises the count
SetWatchersMax(message) ==
    watchers' = IF message > watchers THEN message ELSE watchers

\* setWatchers(message): the state cell takes the payload
SetWatchers(message) == watchers' = message

\* onmessage: parse, then switch on the type; a throw inside the try is caught
OnMessage(i, data) ==
    /\ socks[i] = "open"
    /\ LET parsed == JSONParse(data) IN
        /\ IF ~parsed.ok
           THEN UNCHANGED <<playing, sounding, watchers>>
           ELSE CASE parsed.type = Play ->
                       /\ IF appRef # "none"
                          THEN StartPlaying(parsed.message.key, parsed.message.octave)
                          ELSE UNCHANGED <<playing, sounding>>
                       /\ UNCHANGED watchers
                  [] parsed.type = Stop ->
                       /\ IF appRef # "none"
                          THEN StopPlaying(parsed.message.key, parsed.message.octave)
                          ELSE UNCHANGED <<playing, sounding>>
                       /\ UNCHANGED watchers
                  [] parsed.type = Watchers ->
                       /\ SetWatchers(parsed.count)
                       /\ UNCHANGED <<playing, sounding>>
        /\ LET cb == IF parsed.ok /\ appRef # "none" /\ callbacks
                     THEN RemoteCallback(parsed.type) ELSE "none"
           IN lastEvent' = Event("message",
                                 IF parsed.ok /\ parsed.type # Watchers
                                 THEN KeyId(parsed.message.key, parsed.message.octave)
                                 ELSE "",
                                 cb, IF cb # "none" THEN SendEvent ELSE "none", data)
    /\ UNCHANGED <<pointerDown, button, pressed>>
    /\ UNCHANGED <<relayVars, mountVars>>

(***************************************************************************)
(* The pointer listeners of the Game.                                      *)
(***************************************************************************)
\* if (!this.isPlaying(key, octave)) { if (this._onKeyPlay) this._onKeyPlay(...) }
PlayFires(s) == ~IsPlaying(s.key, s.octave) /\ callbacks

\* if (this.isPlaying(key, octave)) { if (this._onKeyStop) this._onKeyStop(...) }
StopFires(s) == IsPlaying(s.key, s.octave) /\ callbacks

\* Game.onPointerDown on the sprite s, as the listener of the event named e
OnPointerDown(s, e) ==
    LET id == KeyId(s.key, s.octave) IN
    IF PlayFires(s)
    THEN /\ pressed' = pressed \cup {id}
         /\ lastEvent' = Event(e, id, "play", SendEvent, Stringify(Play, s))
    ELSE /\ UNCHANGED pressed
         /\ lastEvent' = Event(e, id, "none", "none", NoFrame)

\* Game.onPointerOver: the same, gated by this.pointerDown
OnPointerOver(s, e) ==
    LET id == KeyId(s.key, s.octave) IN
    IF pointerDown /\ PlayFires(s)
    THEN /\ pressed' = pressed \cup {id}
         /\ lastEvent' = Event(e, id, "play", SendEvent, Stringify(Play, s))
    ELSE /\ UNCHANGED pressed
         /\ lastEvent' = Event(e, id, "none", "none", NoFrame)

\* Game.onPointerUp, the listener of pointerup, pointerupoutside and pointerout
OnPointerUp(s, e) ==
    LET id == KeyId(s.key, s.octave) IN
    /\ pressed' = pressed \ {id}
    /\ lastEvent' = Event(e, id,
                          IF StopFires(s) THEN "stop" ELSE "none",
                          IF StopFires(s) THEN SendEvent ELSE "none",
                          IF StopFires(s) THEN Stringify(Stop, s) ELSE NoFrame)

\* the stage listeners run after the sprite's listener of the same event,
\* unless that listener threw (send on a connecting socket)
StageListener(value) ==
    pointerDown' = IF lastEvent'.sent = "throws" THEN pointerDown ELSE value

\* a pointerdown event on sprite s: sprite listener, then stage listener
PointerDownEvent(s) ==
    /\ appRef = "live"
    /\ OnPointerDown(s, "pointerdown")
    /\ StageListener(TRUE)
    /\ button' = TRUE
    /\ UNCHANGED <<playing, sounding, watchers>>
    /\ UNCHANGED <<relayVars, mountVars>>

\* a pointerup event on sprite s: sprite listener, then stage listener
PointerUpEvent(s) ==
    /\ appRef = "live"
    /\ OnPointerUp(s, "pointerup")
    /\ StageListener(FALSE)
    /\ button' = FALSE
    /\ UNCHANGED <<playing, sounding, watchers>>
    /\ UNCHANGED <<relayVars, mountVars>>

\* a pointerupoutside event on sprite s: the button pressed on s is released
\* away from s; the stage listens to pointerup only, and gets that only when
\* the release is over a sprite (then PointerUpEvent of that sprite runs too)
PointerUpOutsideEvent(s) ==
    /\ appRef = "live"
    /\ OnPointerUp(s, "pointerupoutside")
    /\ button' = FALSE
    /\ UNCHANGED <<pointerDown, playing, sounding, watchers>>
    /\ UNCHANGED <<relayVars, mountVars>>

\* a pointerout event on sprite s: the pointer leaves s, button as it was
PointerLeaveEvent(s) ==
    /\ appRef = "live"
    /\ OnPointerUp(s, "pointerout")
    /\ UNCHANGED <<gameVars, watchers>>
    /\ UNCHANGED <<relayVars, mountVars>>

\* a pointerover event on sprite s
PointerOverEvent(s) ==
    /\ appRef = "live"
    /\ OnPointerOver(s, "pointerover")
    /\ UNCHANGED <<gameVars, watchers>>
    /\ UNCHANGED <<relayVars, mountVars>>

(***************************************************************************)
(* The component's mount effect and initApp.                               *)
(***************************************************************************)
\* a mount effect that connects before the Game module is loaded
MountConnectsFirst ==
    /\ mounted = "no"
    /\ mounted' = "yes"
    /\ awaiting' = IF appRef # "none" THEN awaiting ELSE awaiting + 1
    /\ initLog' = [initLog EXCEPT !.invoked = @ + 1]
    /\ InitWs
    /\ lastEvent' = Event("mount", "", "none", "none", NoFrame)
    /\ UNCHANGED <<appRef, callbacks, children, pressed, watchers>>
    /\ UNCHANGED <<timers, reconnectBackoff, attempt>>
    /\ UNCHANGED gameVars

\* useEffect body: initApp() up to its await; returns at once when appRef is set
Mount ==
    /\ mounted = "no"
    /\ mounted' = "yes"
    /\ awaiting' = IF appRef # "none" THEN awaiting ELSE awaiting + 1
    /\ initLog' = [initLog EXCEPT !.invoked = @ + 1]
    /\ lastEvent' = Event("mount", "", "none", "none", NoFrame)
    /\ UNCHANGED <<appRef, callbacks, children, pressed, watchers>>
    /\ UNCHANGED <<gameVars, relayVars>>

\* initGame(canvasRef.current) runs when neither the import nor the
\* constructor throws (ok) and the canvas is attached; the new Game starts
\* with its own empty playing array, pointerDown false and a full stage
Constructs(ok) == ok /\ mounted = "yes"

\* an initApp whose initWs() sits inside the try: a throw skips the connect
InitAppResumeInsideTry(ok) ==
    /\ awaiting > 0
    /\ awaiting' = awaiting - 1
    /\ appRef' = IF Constructs(ok) THEN "live" ELSE appRef
    /\ IF ok THEN InitWs ELSE UNCHANGED <<socks, wsRef>>
    /\ children' = IF Constructs(ok) THEN Len(CreatePianoKeys) ELSE children
    /\ pointerDown' = IF Constructs(ok) THEN FALSE ELSE pointerDown
    /\ playing' = IF Constructs(ok) THEN <<>> ELSE playing
    /\ callbacks' = IF appRef' # "none" THEN TRUE ELSE callbacks
    /\ initLog' = [initLog EXCEPT !.built = IF Constructs(ok) THEN @ + 1 ELSE @,
                                  !.connected = IF ok THEN @ + 1 ELSE @]
    /\ lastEvent' = Event("initApp", "", "none", "none", NoFrame)
    /\ UNCHANGED <<mounted, timers, reconnectBackoff, attempt, pressed, watchers>>
    /\ UNCHANGED <<button, sounding>>

\* initApp after the import settles: construct the Game when the canvas is
\* still attached (ok: neither the import nor the constructor threw), then
\* initWs(), then register the callbacks on whatever appRef holds
InitAppResume(ok) ==
    /\ awaiting > 0
    /\ awaiting' = awaiting - 1
    /\ appRef' = IF Constructs(ok) THEN "live" ELSE appRef
    /\ InitWs
    /\ children' = IF Constructs(ok) THEN Len(CreatePianoKeys) ELSE children
    /\ pointerDown' = IF Constructs(ok) THEN FALSE ELSE pointerDown
    /\ playing' = IF Constructs(ok) THEN <<>> ELSE playing
    /\ callbacks' = IF appRef' # "none" THEN TRUE ELSE callbacks
    /\ initLog' = [initLog EXCEPT !.built = IF Constructs(ok) THEN @ + 1 ELSE @,
                                  !.connected = @ + 1]
    /\ lastEvent' = Event("initApp", "", "none", "none", NoFrame)
    /\ UNCHANGED <<mounted, timers, reconnectBackoff, attempt, pressed, watchers>>
    /\ UNCHANGED <<button, sounding>>

\* WebSocket.close(): a connecting or open socket starts closing
Close(ss, i) ==
    IF i # 0 /\ ss[i] \in {"connecting", "open"}
    THEN [ss EXCEPT ![i] = "closing"]
    ELSE ss

\* the effect's cleanup: appRef.current?.destroy(); wsRef.current?.close()
\* (destroy is app.destroy(true): the ticker stops, the stage loses its children)
Unmount ==
    /\ mounted = "yes"
    /\ mounted' = "unmounted"
    /\ appRef' = IF appRef = "live" THEN "destroyed" ELSE appRef
    /\ children' = 0
    /\ socks' = Close(socks, wsRef)
    /\ lastEvent' = Event("unmount", "", "none", "none", NoFrame)
    /\ UNCHANGED <<awaiting, callbacks, initLog, pressed, watchers>>
    /\ UNCHANGED <<wsRef, timers, reconnectBackoff, attempt>>
    /\ UNCHANGED gameVars

Next ==
    \/ Mount
    \/ \E ok \in BOOLEAN : InitAppResume(ok)
    \/ Unmount
    \/ \E i \in 1..Len(socks) : OnOpen(i)
    \/ \E i \in 1..Len(socks) : OnClose(i)
    \/ \E i \in 1..Len(socks) : \E data \in Frames : OnMessage(i, data)
    \/ \E j \in 1..Len(timers) : TimerFire(j)
    \/ \E s \in Touched : PointerDownEvent(s)
    \/ \E s \in Touched : PointerUpEvent(s)
    \/ \E s \in Touched : PointerUpOutsideEvent(s)
    \/ \E s \in Touched : PointerLeaveEvent(s)
    \/ \E s \in Touched : PointerOverEvent(s)
    \/ Render

Spec == Init /\ [][Next]_vars

\* the mount effect runs again on the same instance (its refs are kept), as
\* under React's strict mode or a fast refresh; initApp is invoked again
Remount ==
    /\ mounted = "unmounted"
    /\ initLog.invoked < MaxMounts
    /\ mounted' = "yes"
    /\ awaiting' = IF appRef # "none" THEN awaiting ELSE awaiting + 1
    /\ initLog' = [initLog EXCEPT !.invoked = @ + 1]
    /\ lastEvent' = Event("mount", "", "none", "none", NoFrame)
    /\ UNCHANGED <<appRef, callbacks, children, pressed, watchers>>
    /\ UNCHANGED <<gameVars, relayVars>>

NextReinit == Next \/ Remount

\* the component with any number of runs of its mount effect
SpecReinit == Init /\ [][NextReinit]_vars

(***************************************************************************)
(* Properties.                                                             *)
(***************************************************************************)
RECURSIVE Pow2(_)
Pow2(n) == IF n = 0 THEN 1 ELSE 2 * Pow2(n - 1)

\* membership of a key identity in an array of identities
Has(arr, id) == \E n \in 1..Len(arr) : arr[n] = id

\* the step is the handling of an inbound frame of the set F
Handles(F) == lastEvent'.kind = "message" /\ lastEvent'.data \in F

\* the identity a Play or Stop frame names
FrameKey(data) == KeyId(data.message.key, data.message.octave)

Releases == {"pointerup", "pointerupoutside", "pointerout"}

\* C1: every reconnect is scheduled with delay 100 * 2^n, n being the number
\* of reconnects scheduled since the last successful open (or since the
\* start); an open puts the delay back to 100.
BackoffSequence ==
    [][/\ Len(timers') > Len(timers) =>
            timers'[Len(timers')] = BackoffFloor * Pow2(attempt)
       /\ lastEvent'.kind = "open" => reconnectBackoff' = BackoffFloor]_vars

\* C1 witness: the third consecutive failed attempt has been scheduled: 400 ms
BackoffSequenceWitness ==
    /\ lastEvent.kind = "close"
    /\ attempt = 3
    /\ timers = <<4 * BackoffFloor>>

\* C2: at most one socket is not closed, or else one reconnect timer is
\* pending, never both and never two of either; a socket beyond the first is
\* created only by a firing timer with every earlier socket closed.
SerializedReconnects ==
    /\ [](Cardinality({i \in 1..Len(socks) : socks[i] \in Live}) + Len(timers) <= 1)
    /\ [][(Len(socks') > Len(socks) /\ Len(socks) > 0) =>
            /\ lastEvent'.kind = "timer"
            /\ Len(timers') < Len(timers)
            /\ \A i \in 1..Len(socks) : socks[i] = "closed"]_vars

\* C2 witness: a second socket is connected after the first one closed
SerializedReconnectsWitness ==
    /\ Len(socks) = 2
    /\ socks[1] = "closed"
    /\ socks[2] = "open"
    /\ mounted = "yes"

\* C3: once the component is torn down no socket is created any more.
NoConnectAfterTeardown ==
    [][mounted = "unmounted" => Len(socks') = Len(socks)]_vars

\* C4: a pointerdown on a key that is not playing, directly followed by a
\* release of the same key, leaves the key out of the playing set with the
\* play callback fired by the press and the stop callback by the release.
\* (No handler but onmessage writes the playing array, so the key is out of
\* it before the press exactly when it is out of it before the release.)
PressReleaseCallbacks ==
    [][(/\ lastEvent.kind = "pointerdown"
        /\ lastEvent'.kind \in Releases
        /\ lastEvent'.key = lastEvent.key
        /\ ~Has(playing, lastEvent.key)) =>
           /\ ~Has(playing', lastEvent.key)
           /\ lastEvent.cb = "play"
           /\ lastEvent'.cb = "stop"]_vars

\* C5: the play callback never fires for a key whose play callback has fired
\* already since the last release event of that key.
IdempotentPlay == ~lastEvent.again

\* C6: no key identity occurs twice in the playing array.
PlayingHasNoDuplicates ==
    \A a, b \in 1..Len(playing) : a # b => playing[a] # playing[b]

\* C7: handling Stop{k} leaves k out of the playing array and the membership
\* of every other key as it was.
StopRemovesAll ==
    [][Handles(StopFrames) =>
        LET k == FrameKey(lastEvent'.data) IN
        /\ ~Has(playing', k)
        /\ \A o \in KeyIds \ {k} : Has(playing', o) <=> Has(playing, o)]_vars

\* C7 witness: a Stop has just been handled by a live Game and another key
\* is still playing
StopRemovesAllWitness ==
    /\ lastEvent.kind = "message"
    /\ lastEvent.data \in StopFrames
    /\ appRef = "live"
    /\ playing # <<>>
    /\ ~Has(playing, lastEvent.key)

\* C8: handling Stop{k} for a key outside the playing array changes neither
\* the array, nor the watcher count, nor the sockets, timers and backoff, and
\* releases no note.
StopOfIdleKeyIsNoOp ==
    [][(Handles(StopFrames) /\ ~Has(playing, FrameKey(lastEvent'.data))) =>
        /\ playing' = playing
        /\ watchers' = watchers
        /\ UNCHANGED relayVars
        /\ sounding' = sounding]_vars

\* C9: handling Watchers{n} stores n as the watcher count and leaves the
\* playing array alone, and nothing else writes the count: it is always the
\* payload of the latest Watchers frame.
WatchersReplaced ==
    [][IF Handles(WatchersFrames)
       THEN watchers' = lastEvent'.data.count /\ playing' = playing
       ELSE watchers' = watchers]_vars

\* C9 witness: a Watchers frame has replaced the initial count
WatchersReplacedWitness ==
    /\ lastEvent.kind = "message"
    /\ lastEvent.data \in WatchersFrames
    /\ watchers = MaxWatchers
    /\ watchers # InitialWatchers

\* C10: a frame that does not parse changes neither the playing array, the
\* synth, the watcher count, the sockets, the timers nor the backoff; the
\* socket it came on stays open.
MalformedDropped ==
    [][Handles({Garbage}) =>
        /\ UNCHANGED <<playing, sounding, watchers>>
        /\ UNCHANGED relayVars
        /\ \E i \in 1..Len(socks') : socks'[i] = "open"]_vars

\* C10 witness: a malformed frame was handled while a key was playing
MalformedDroppedWitness ==
    /\ lastEvent.kind = "message"
    /\ lastEvent.data = Garbage
    /\ playing # <<>>
    /\ watchers # InitialWatchers

\* C11: initApp connects whether or not the Game was constructed; and with
\* no Game (appRef unset) Play and Stop frames change nothing, a Watchers
\* frame still replaces the count, a close still schedules a reconnect with
\* the backoff delay and the timer still reconnects.
DegradedRelay ==
    [][/\ lastEvent'.kind = "initApp" =>
            /\ Len(socks') = Len(socks) + 1
            /\ socks'[Len(socks')] = "connecting"
       /\ appRef = "none" =>
            /\ Handles(PlayFrames \cup StopFrames) =>
                  UNCHANGED <<playing, sounding, watchers, relayVars>>
            /\ Handles(WatchersFrames) => watchers' = lastEvent'.data.count
            /\ lastEvent'.kind = "close" =>
                  timers' = Append(timers, BackoffFloor * Pow2(attempt))
            /\ lastEvent'.kind = "timer" =>
                  /\ Len(socks') = Len(socks) + 1
                  /\ socks'[Len(socks')] = "connecting"]_vars

\* C11 witness: the Game failed to construct while mounted, the relay has
\* reconnected once and a Watchers frame has been applied
DegradedRelayWitness ==
    /\ mounted = "yes"
    /\ awaiting = 0
    /\ appRef = "none"
    /\ Len(socks) = 2
    /\ socks[2] = "open"
    /\ lastEvent.kind = "message"
    /\ lastEvent.data \in WatchersFrames
    /\ watchers = MaxWatchers

\* C12: handling an inbound frame fires neither the play nor the stop
\* callback and sends nothing.
RemoteDoesNotRefire ==
    [][lastEvent'.kind = "message" =>
        /\ lastEvent'.cb = "none"
        /\ lastEvent'.sent = "none"
        /\ pressed' = pressed]_vars

\* C12 witness: a Play frame has marked a key on a live Game whose callbacks
\* are registered, on an open socket a send would have gone out on
RemoteDoesNotRefireWitness ==
    /\ lastEvent.kind = "message"
    /\ lastEvent.data \in PlayFrames
    /\ appRef = "live"
    /\ callbacks
    /\ Has(playing, lastEvent.key)
    /\ wsRef # 0
    /\ socks[wsRef] = "open"

\* C13: a pointerover fires the play callback only when the button is held
\* and the key is out of the playing array: once the button is released, by
\* whatever release event, a hover fires nothing.
DragPlayGating ==
    [][(lastEvent'.kind = "pointerover" /\ lastEvent'.cb = "play") =>
        (button /\ ~Has(playing, lastEvent'.key))]_vars

\* the pitch classes written with a sharp marker
Sharps == {"c#", "d#", "f#", "g#", "a#"}

\* the meta of the n-th child of the stage
Child(n) == CreatePianoKeys[n]

\* C14: after a render tick every key's tint is its active colour when its
\* identity is in the playing array, and otherwise its resting colour: black
\* for a pitch class with a sharp marker, white for the others.
RenderTints ==
    [][lastEvent'.kind = "render" =>
        /\ Len(lastEvent'.tints) = children
        /\ children = KeyCount
        /\ \A n \in 1..children :
              lastEvent'.tints[n] =
                IF Has(playing, KeyId(Child(n).key, Child(n).octave))
                THEN Child(n).playingColor
                ELSE IF Child(n).key \in Sharps THEN Black ELSE White]_vars

\* C14 witness: a tick drew c#1 highlighted after a Play, c1 back at white
\* after its Stop, and the idle d#1 black
RenderTintsWitness ==
    /\ lastEvent.kind = "render"
    /\ playing = <<"c#1">>
    /\ "c1" \notin pressed
    /\ sounding = ""
    /\ lastEvent.tints[1] = White
    /\ lastEvent.tints[2] = PIANO_KEY_COLORS[2]
    /\ lastEvent.tints[4] = Black

\* C15: when the Game is constructed the stage holds keyCount keys; the key
\* at position i has pitch class PIANO_KEYS[i mod 12], octave floor(i/12)+1
\* and active colour PIANO_KEY_COLORS[i mod 6], and no two keys have the same
\* identity.
KeyLayout ==
    [][children' > children =>
        /\ children' = KeyCount
        /\ \A i \in 0..(children' - 1) :
              /\ Child(i + 1).key = PIANO_KEYS[(i % 12) + 1]
              /\ Child(i + 1).octave = (i \div 12) + 1
              /\ Child(i + 1).playingColor = PIANO_KEY_COLORS[(i % 6) + 1]
        /\ \A i, j \in 1..children' :
              i # j => KeyId(Child(i).key, Child(i).octave)
                        # KeyId(Child(j).key, Child(j).octave)]_vars

\* C15 witness: the stage holds the keys; the last one is d#5
KeyLayoutWitness ==
    /\ appRef = "live"
    /\ children = KeyCount
    /\ Child(children).key = "d#"
    /\ Child(children).octave = 5
    /\ Child(13).key = "c"
    /\ Child(13).octave = 2

\* C16: a frame goes out only in the step in which a play or stop callback
\* runs, and then at most one: on an open socket it is sent at once with the
\* callback's type and key; on a socket that is not open it is lost (send
\* throws or discards), never held for a later connection; and in either
\* case the sockets, timers and backoff are as they were.
ForwardedAtOnce ==
    [][/\ lastEvent'.cb = "none" => lastEvent'.sent = "none"
       /\ lastEvent'.cb # "none" =>
            /\ wsRef # 0
            /\ IF socks[wsRef] = "open"
               THEN /\ lastEvent'.sent = "sent"
                    /\ lastEvent'.data.json
                    /\ lastEvent'.data.type = (IF lastEvent'.cb = "play" THEN Play ELSE Stop)
                    /\ FrameKey(lastEvent'.data) = lastEvent'.key
               ELSE lastEvent'.sent \in {"throws", "discarded"}
            /\ UNCHANGED relayVars]_vars

\* C16 witness: a press fired the play callback while the socket was closed
\* and the reconnect timer pending; the frame was discarded
ForwardedAtOnceWitness ==
    /\ lastEvent.kind = "pointerdown"
    /\ lastEvent.cb = "play"
    /\ lastEvent.sent = "discarded"
    /\ socks[wsRef] = "closed"
    /\ Len(timers) = 1

\* the kinds of the pointer events a sprite listens to
PointerKinds == {"pointerdown", "pointerover"} \cup Releases

SingleShotInit == initLog.built <= 1 /\ initLog.connected <= 1

\* C19: only the handling of an inbound frame changes the playing array or
\* the watcher count: pointer events, sends, socket open and close, the
\* reconnect timer, render ticks and teardown leave both as they were.
OnlyMessagesWrite ==
    [][lastEvent'.kind # "message" =>
        (playing' = playing /\ watchers' = watchers)]_vars

\* C19 witness: a key was marked playing, the socket dropped and the next
\* one has opened; the key is still marked
OnlyMessagesWriteWitness ==
    /\ lastEvent.kind = "open"
    /\ Len(socks) = 2
    /\ socks[1] = "closed"
    /\ appRef = "live"
    /\ Has(playing, "c1")
    /\ watchers # InitialWatchers

====
